---- MODULE Spec2Model ----
(***************************************************************************)
(* Model of frostgate-zkip's plugin contract (src/src/zkplug.rs):          *)
(*   - ZkPluginRegistry (register / get / list_plugins / unregister),      *)
(*   - the default bodies of the ZkPlug trait (prove_batch, verify_batch,  *)
(*     the optional hooks, the lifecycle hooks),                           *)
(*   - utils::validate_input and utils::with_timeout.                      *)
(* Each component has its own specification over the shared variables;     *)
(* the components do not interact in the source (the registry stores       *)
(* handles, the trait defaults are stateless, the utils are free           *)
(* functions), so each is explored on its own.                             *)
(***************************************************************************)
EXTENDS Integers, Sequences, FiniteSets, TLC

VARIABLES
    plugins,    \* ZkPluginRegistry.plugins : HashMap<String, Arc<dyn ZkPlug>>
    accepted,   \* history: id -> handle whose register() returned Ok and
                \* which has not been unregistered since
    invoked,    \* history: backend methods the registry operations called,
                \* each with the operation that called it
    regRet,     \* the last registry operation and what it returned
    backend,    \* a backend instance: capabilities() and the lifecycle calls made
    call,       \* the last call of a trait-default method and its result
    val,        \* the last validate_input call and its result
    now,        \* clock of the with_timeout call (ticks since the call)
    tmo         \* the with_timeout call: arguments, position, result

vars == <<plugins, accepted, invoked, regRet, backend, call, val, now, tmo>>

\* Option<T>
None == [tag |-> "None"]

Some(v) == [tag |-> "Some", value |-> v]

(***************************************************************************)
(* Results and errors                                                      *)
(***************************************************************************)

\* ZkError: the eleven kinds; the payload is a message or, for Timeout, a Duration.
ZkErrorKinds ==
    {"ProofGeneration", "VerificationFailed", "InvalidInput", "BackendUnavailable",
     "Timeout", "ResourceExhaustion", "Serialization", "Hardware", "Network",
     "Circuit", "Unsupported"}

ZkError(kind, payload) == [kind |-> kind, payload |-> payload]

Ok(v) == [tag |-> "Ok", value |-> v]

Err(e) == [tag |-> "Err", error |-> e]

(***************************************************************************)
(* Registry                                                                *)
(***************************************************************************)

\* Bounds: identities, and backend instances sharing one identity.
MaxIds == 3

MaxInst == 2

Ids == 1..MaxIds

\* An Arc<P>: a backend instance; id is what its id() returns.
Handle == [id : Ids, inst : 1..MaxInst]

\* HashMap::contains_key
contains_key(map, k) == k \in DOMAIN map

\* HashMap::remove: the map without k
remove(map, k) == [j \in (DOMAIN map) \ {k} |-> map[j]]

\* ZkPluginRegistry::new
new == << >>

\* Mutant: register also initializes the backend it is given.
register_initializing(map, plugin) ==
    LET id == plugin.id
    IN  IF contains_key(map, id)
        THEN [plugins |-> map, calls |-> {"id"},
              ret |-> Err(ZkError("InvalidInput", <<"already registered", id>>))]
        ELSE [plugins |-> map, calls |-> {"id", "initialize"}, ret |-> Ok(<< >>)]

\* ZkPluginRegistry::register: plugin.id() is called for the key, then the
\* duplicate check, and NO insert (the insert is commented out in the source);
\* returns the map as it leaves it, the backend methods it called and the result.
register(map, plugin) ==
    LET id == plugin.id
    IN  IF contains_key(map, id)
        THEN [plugins |-> map, calls |-> {"id"},
              ret |-> Err(ZkError("InvalidInput", <<"already registered", id>>))]
        ELSE [plugins |-> map, calls |-> {"id"}, ret |-> Ok(<< >>)]

\* ZkPluginRegistry::get
get(map, id) == IF contains_key(map, id) THEN Some(map[id]) ELSE None

\* ZkPluginRegistry::list_plugins (order unspecified: a set)
list_plugins(map) == DOMAIN map

\* ZkPluginRegistry::unregister
unregister(map, id) ==
    [plugins |-> remove(map, id),
     ret |-> IF contains_key(map, id) THEN Some(map[id]) ELSE None]

RegistryInit ==
    /\ plugins = new
    /\ accepted = << >>
    /\ invoked = {}
    /\ regRet = [op |-> "none"]

\* A caller registers the backend instance h.
Register(h) ==
    LET r == register(plugins, h)
    IN  /\ plugins' = r.plugins
        /\ invoked' = invoked \cup {[method |-> c, op |-> "register"] : c \in r.calls}
        /\ regRet' = [op |-> "register", id |-> h.id, plugin |-> h, ret |-> r.ret]
        /\ accepted' =
              IF r.ret.tag = "Ok" /\ h.id \notin DOMAIN accepted
              THEN [j \in (DOMAIN accepted) \cup {h.id} |->
                        IF j = h.id THEN h ELSE accepted[j]]
              ELSE accepted
        /\ UNCHANGED <<backend, call, val, now, tmo>>

Get(i) ==
    /\ regRet' = [op |-> "get", id |-> i, ret |-> get(plugins, i)]
    /\ UNCHANGED <<plugins, accepted, invoked, backend, call, val, now, tmo>>

ListPlugins ==
    /\ regRet' = [op |-> "list_plugins", ret |-> list_plugins(plugins)]
    /\ UNCHANGED <<plugins, accepted, invoked, backend, call, val, now, tmo>>

Unregister(i) ==
    LET r == unregister(plugins, i)
    IN  /\ plugins' = r.plugins
        /\ regRet' = [op |-> "unregister", id |-> i, ret |-> r.ret]
        /\ accepted' = remove(accepted, i)
        /\ UNCHANGED <<invoked, backend, call, val, now, tmo>>

RegistryNext ==
    \/ \E h \in Handle : Register(h)
    \/ \E i \in Ids : Get(i)
    \/ ListPlugins
    \/ \E i \in Ids : Unregister(i)

(***************************************************************************)
(* Batch defaults of the ZkPlug trait                                      *)
(***************************************************************************)

\* Bounds: items per batch, distinct payloads.
MaxBatch == 3

MaxPayload == 2

Payloads == 1..MaxPayload

SeqsUpTo(S, n) == UNION {[1..k -> S] : k \in 0..n}

\* Option<ZkConfig> as passed to a call: absent, or some configuration.
Configs == {None, Some("config")}

\* What the backend's own prove / verify does on one call is the backend's
\* business (required methods, no body in the trait): an outcome per call.
ProveOutcomes == {"Ok", "ProofGeneration", "InvalidInput"}

VerifyOutcomes == {"true", "false", "VerificationFailed"}

\* ZkPlug::prove, a required method: the proof of (input, public_inputs), or the
\* backend's failure.
prove(input, public_inputs, config, outcome) ==
    IF outcome = "Ok"
    THEN Ok([proof |-> <<input, public_inputs>>])
    ELSE Err(ZkError(outcome, input))

\* ZkPlug::verify, a required method.
verify(proof, public_inputs, config, outcome) ==
    IF outcome = "VerificationFailed"
    THEN Err(ZkError(outcome, proof))
    ELSE Ok(outcome = "true")

\* Iterator::zip: stops at the shorter of the two.
RECURSIVE zip(_, _)
zip(a, b) ==
    IF a = << >> \/ b = << >>
    THEN << >>
    ELSE <<(<<Head(a), Head(b)>>)>> \o zip(Tail(a), Tail(b))

\* The loop of prove_batch: every result, Ok or Err, is pushed.
RECURSIVE prove_batch_loop(_, _, _, _)
prove_batch_loop(pairs, config, outcomes, proofs) ==
    IF pairs = << >>
    THEN proofs
    ELSE LET proof_result ==
                 prove(Head(pairs)[1], Head(pairs)[2], config, Head(outcomes))
         IN  prove_batch_loop(Tail(pairs), config, Tail(outcomes),
                              Append(proofs, proof_result))

\* ZkPlug::prove_batch (default body)
prove_batch(request, outcomes) ==
    Ok([proofs |-> prove_batch_loop(zip(request.inputs, request.public_inputs),
                                    request.config, outcomes, << >>),
        aggregated_proof |-> None])

\* The loop of verify_batch: `?` returns the first error at once. The result
\* and the proofs verify was called on.
RECURSIVE verify_batch_loop(_, _, _, _, _)
verify_batch_loop(pairs, config, outcomes, results, verified) ==
    IF pairs = << >>
    THEN [ret |-> Ok(results), verified |-> verified]
    ELSE LET result ==
                 verify(Head(pairs)[1], Head(pairs)[2], config, Head(outcomes))
             seen == Append(verified, Head(pairs)[1])
         IN  IF result.tag = "Err"
             THEN [ret |-> result, verified |-> seen]
             ELSE verify_batch_loop(Tail(pairs), config, Tail(outcomes),
                                    Append(results, result.value), seen)

\* ZkPlug::verify_batch (default body)
verify_batch(proofs, public_inputs, config, outcomes) ==
    verify_batch_loop(zip(proofs, public_inputs), config, outcomes, << >>, << >>)

Min(a, b) == IF a < b THEN a ELSE b

PublicInputs == {None} \cup {Some(p) : p \in Payloads}

CallInit == call = [op |-> "none"]

\* The batch defaults keep no state: a behaviour is one call.
ProveBatch ==
    /\ call.op = "none"
    /\ \E inputs \in SeqsUpTo(Payloads, MaxBatch),
          public_inputs \in SeqsUpTo(PublicInputs, MaxBatch),
          config \in Configs :
          \E outcomes \in [1..Min(Len(inputs), Len(public_inputs)) -> ProveOutcomes] :
             LET request == [inputs |-> inputs, public_inputs |-> public_inputs,
                             config |-> config]
             IN  call' = [op |-> "prove_batch", request |-> request,
                          outcomes |-> outcomes,
                          ret |-> prove_batch(request, outcomes)]
    /\ UNCHANGED <<plugins, accepted, invoked, regRet, backend, val, now, tmo>>

VerifyBatch ==
    /\ call.op = "none"
    /\ \E proofs \in SeqsUpTo(Payloads, MaxBatch),
          public_inputs \in SeqsUpTo(PublicInputs, MaxBatch),
          config \in Configs :
          \E outcomes \in [1..Min(Len(proofs), Len(public_inputs)) -> VerifyOutcomes] :
             LET r == verify_batch(proofs, public_inputs, config, outcomes)
             IN  call' = [op |-> "verify_batch", proofs |-> proofs,
                          public_inputs |-> public_inputs, outcomes |-> outcomes,
                          ret |-> r.ret, verified |-> r.verified]
    /\ UNCHANGED <<plugins, accepted, invoked, regRet, backend, val, now, tmo>>

BatchNext == ProveBatch \/ VerifyBatch

(***************************************************************************)
(* Optional hooks and lifecycle defaults of the ZkPlug trait               *)
(***************************************************************************)

\* Bound: length of a hook's list argument.
MaxHookArgs == 2

\* ZkCapability (the variants the hooks relate to, and one they do not).
ZkCapability == {"Recursion", "Aggregation", "VirtualMachine", "Circuit"}

\* The instance's own fields, opaque to the trait.
BackendFields == {"f1", "f2"}

Lifecycles == {"Uninitialized", "Initialized", "Shutdown"}

\* Self::Error: From<ZkError>, the backend's error built from a ZkError.
from_zk_error(e) == [backend_error |-> e]

\* ZkPlug::capabilities, a required method: whatever the backend advertises.
capabilities(self) == self.capabilities

\* ZkPlug::supports_capability
supports_capability(self, capability) == capability \in capabilities(self)

\* Mutant: validates the list before answering.
aggregate_proofs_validating(self, proofs, config) ==
    IF proofs = << >>
    THEN Err(from_zk_error(ZkError("InvalidInput", "No proofs to aggregate")))
    ELSE Err(from_zk_error(ZkError("Unsupported", "Proof aggregation not supported")))

\* ZkPlug::aggregate_proofs (default body)
aggregate_proofs(self, proofs, config) ==
    Err(from_zk_error(ZkError("Unsupported", "Proof aggregation not supported")))

\* ZkPlug::create_recursive_proof (default body)
create_recursive_proof(self, base_proof, config) ==
    Err(from_zk_error(ZkError("Unsupported", "Recursive proofs not supported")))

\* ZkPlug::setup_circuit (default body)
setup_circuit(self, circuit_code, config) ==
    Err(from_zk_error(ZkError("Unsupported", "Circuit setup not supported")))

\* ZkPlug::get_circuit_info (default body)
get_circuit_info(self, circuit_id) ==
    Err(from_zk_error(ZkError("Unsupported", "Circuit info not available")))

\* HealthStatus
Healthy == [status |-> "Healthy"]

\* A usize count, and usize::MAX (beyond the integers explored here).
usize(n) == [bytes |-> n]

usize_MAX == [max |-> "usize::MAX"]

\* ZkPlug::health_check (default body)
health_check(self) == Healthy

\* ZkBackend::health_check (default body, src/src/backend.rs)
ZkBackend_health_check(self) == Healthy

\* Mutant: the derived Default of ResourceUsage, available memory zero.
get_resource_usage_zeroed(self) ==
    [cpu_usage |-> 0, memory_usage |-> usize(0), available_memory |-> usize(0),
     active_tasks |-> usize(0), queue_depth |-> usize(0)]

\* ZkPlug::get_resource_usage (default body)
get_resource_usage(self) ==
    [cpu_usage |-> 0, memory_usage |-> usize(0), available_memory |-> usize_MAX,
     active_tasks |-> usize(0), queue_depth |-> usize(0)]

\* Mutant: initialize resets the instance's fields.
initialize_resetting(self, config) ==
    [self |-> [capabilities |-> self.capabilities, fields |-> "f1"],
     ret |-> Ok(<< >>)]

\* ZkPlug::initialize (default body): the instance as it leaves it, and the result.
initialize(self, config) == [self |-> self, ret |-> Ok(<< >>)]

\* ZkPlug::shutdown (default body)
shutdown(self) == [self |-> self, ret |-> Ok(<< >>)]

\* ZkBackend::initialize (default body, src/src/backend.rs)
ZkBackend_initialize(self, config) == [self |-> self, ret |-> Ok(<< >>)]

\* ZkBackend::shutdown (default body, src/src/backend.rs)
ZkBackend_shutdown(self) == [self |-> self, ret |-> Ok(<< >>)]

\* A backend that overrides none of the default methods; what capabilities()
\* returns is the backend author's choice. lifecycle is history: the last
\* lifecycle call made on the instance.
BackendInit ==
    \E caps \in SUBSET ZkCapability, f \in BackendFields :
        backend = [capabilities |-> caps, fields |-> f, lifecycle |-> "Uninitialized"]

BackendIdle ==
    backend = [capabilities |-> {}, fields |-> "f1", lifecycle |-> "Uninitialized"]

\* The instance without the history field: what the trait methods see.
Self == [capabilities |-> backend.capabilities, fields |-> backend.fields]

\* A lifecycle call: the record keeps, as history, the instance and the
\* lifecycle as they were before the call.
LifecycleCall(op, r, lifecycle) ==
    /\ backend' = [capabilities |-> r.self.capabilities, fields |-> r.self.fields,
                   lifecycle |-> lifecycle]
    /\ call' = [op |-> op, ret |-> r.ret, before |-> backend.lifecycle,
                self_before |-> Self]
    /\ UNCHANGED <<plugins, accepted, invoked, regRet, val, now, tmo>>

Initialize(config) ==
    LifecycleCall("initialize", initialize(Self, config), "Initialized")

Shutdown ==
    LifecycleCall("shutdown", shutdown(Self), "Shutdown")

ZkBackendInitialize(config) ==
    LifecycleCall("ZkBackend::initialize", ZkBackend_initialize(Self, config),
                  "Initialized")

ZkBackendShutdown ==
    LifecycleCall("ZkBackend::shutdown", ZkBackend_shutdown(Self), "Shutdown")

HealthCheck ==
    /\ call' = [op |-> "health_check", ret |-> health_check(Self)]
    /\ UNCHANGED <<plugins, accepted, invoked, regRet, backend, val, now, tmo>>

ZkBackendHealthCheck ==
    /\ call' = [op |-> "ZkBackend::health_check", ret |-> ZkBackend_health_check(Self)]
    /\ UNCHANGED <<plugins, accepted, invoked, regRet, backend, val, now, tmo>>

GetResourceUsage ==
    /\ call' = [op |-> "get_resource_usage", ret |-> get_resource_usage(Self)]
    /\ UNCHANGED <<plugins, accepted, invoked, regRet, backend, val, now, tmo>>

AggregateProofs(proofs, config) ==
    /\ call' = [op |-> "aggregate_proofs", proofs |-> proofs, config |-> config,
                ret |-> aggregate_proofs(Self, proofs, config)]
    /\ UNCHANGED <<plugins, accepted, invoked, regRet, backend, val, now, tmo>>

CreateRecursiveProof(base_proof, config) ==
    /\ call' = [op |-> "create_recursive_proof", base_proof |-> base_proof,
                config |-> config,
                ret |-> create_recursive_proof(Self, base_proof, config)]
    /\ UNCHANGED <<plugins, accepted, invoked, regRet, backend, val, now, tmo>>

SetupCircuit(circuit_code, config) ==
    /\ call' = [op |-> "setup_circuit", circuit_code |-> circuit_code,
                config |-> config,
                ret |-> setup_circuit(Self, circuit_code, config)]
    /\ UNCHANGED <<plugins, accepted, invoked, regRet, backend, val, now, tmo>>

GetCircuitInfo(circuit_id) ==
    /\ call' = [op |-> "get_circuit_info", circuit_id |-> circuit_id,
                ret |-> get_circuit_info(Self, circuit_id)]
    /\ UNCHANGED <<plugins, accepted, invoked, regRet, backend, val, now, tmo>>

BackendNext ==
    \/ \E config \in Configs : Initialize(config)
    \/ Shutdown
    \/ \E config \in Configs : ZkBackendInitialize(config)
    \/ ZkBackendShutdown
    \/ HealthCheck
    \/ ZkBackendHealthCheck
    \/ GetResourceUsage
    \/ \E proofs \in SeqsUpTo(Payloads, MaxHookArgs), config \in Configs :
          AggregateProofs(proofs, config)
    \/ \E base_proof \in Payloads, config \in Configs :
          CreateRecursiveProof(base_proof, config)
    \/ \E circuit_code \in SeqsUpTo(Payloads, MaxHookArgs), config \in Configs :
          SetupCircuit(circuit_code, config)
    \/ \E circuit_id \in Payloads : GetCircuitInfo(circuit_id)

(***************************************************************************)
(* serialize_proof / deserialize_proof defaults of the ZkPlug trait        *)
(*                                                                         *)
(* bincode's encoding is not self-describing: a struct is its fields in    *)
(* order, an integer is one fixed-width word, a string or a map is its     *)
(* length followed by its elements, an Option is a tag followed by the     *)
(* value, a unit is nothing. The data is modelled as the sequence of those *)
(* words (a character of a string is one word). SystemTime is serialized   *)
(* by serde as the Duration since UNIX_EPOCH, which fails before the       *)
(* epoch. serde_json::Value serializes as the value it holds, without a    *)
(* tag, and deserializes through deserialize_any, which bincode refuses.   *)
(***************************************************************************)

\* Bound: length of a string field.
MaxStrLen == 1

Strings == SeqsUpTo(Payloads, MaxStrLen)

\* SystemTime, in whole seconds relative to UNIX_EPOCH (one instant before it).
Timestamps == {-1} \cup (0..MaxPayload)

\* Duration
Durations == [secs : Payloads, nanos : {0}]

\* serde_json::Value (three of its variants)
JsonValues ==
    {[json |-> "Null"]}
    \cup {[json |-> "Number", n |-> n] : n \in Payloads}
    \cup {[json |-> "String", s |-> s] : s \in Strings}

\* Keys of custom_fields: the one-character strings.
FieldKeys == {<<c>> : c \in Payloads}

\* ProofMetadata
ProofMetadata ==
    UNION {[timestamp : Timestamps, generation_time : Durations,
            proof_size : Payloads, backend_id : Strings,
            circuit_hash : {None} \cup {Some(h) : h \in Strings},
            custom_fields : [keys -> JsonValues]] : keys \in SUBSET FieldKeys}

\* ZkProof<P>, with an integer for the backend's payload P.
ZkProof == [proof : Payloads, metadata : ProofMetadata]

ser_str(str) == <<Len(str)>> \o str

ser_option_str(o) == IF o.tag = "None" THEN <<0>> ELSE <<1>> \o ser_str(o.value)

ser_duration(d) == <<d.secs, d.nanos>>

\* impl Serialize for serde_json::Value, into bincode: no tag.
ser_json(v) ==
    CASE v.json = "Null" -> << >>
      [] v.json = "Number" -> <<v.n>>
      [] OTHER -> ser_str(v.s)

\* A HashMap: its length, then every key and value (in the map's own order).
RECURSIVE ser_entries(_, _)
ser_entries(map, keys) ==
    IF keys = {}
    THEN << >>
    ELSE LET k == CHOOSE x \in keys : TRUE
         IN  ser_str(k) \o ser_json(map[k]) \o ser_entries(map, keys \ {k})

ser_map(map) == <<Cardinality(DOMAIN map)>> \o ser_entries(map, DOMAIN map)

\* ZkPlug::serialize_proof (default body): bincode::serialize, its error
\* mapped to ZkError::Serialization.
serialize_proof(proof) ==
    LET md == proof.metadata
    IN  IF md.timestamp < 0
        THEN Err(from_zk_error(ZkError("Serialization",
                                       "SystemTime must be later than UNIX_EPOCH")))
        ELSE Ok(<<proof.proof>>
                \o <<md.timestamp, 0>>
                \o ser_duration(md.generation_time)
                \o <<md.proof_size>>
                \o ser_str(md.backend_id)
                \o ser_option_str(md.circuit_hash)
                \o ser_map(md.custom_fields))

\* A step of the decoder: the value read and the data left, or the failure.
Parsed(v, rest) == [ok |-> TRUE, value |-> v, rest |-> rest]

Failed(why) == [ok |-> FALSE, error |-> why]

de_u64(data) ==
    IF data = << >>
    THEN Failed("unexpected end of file")
    ELSE Parsed(Head(data), Tail(data))

de_str(data) ==
    LET n == de_u64(data)
    IN  IF ~n.ok
        THEN n
        ELSE IF Len(n.rest) < n.value
             THEN Failed("unexpected end of file")
             ELSE Parsed(SubSeq(n.rest, 1, n.value),
                         SubSeq(n.rest, n.value + 1, Len(n.rest)))

de_option_str(data) ==
    LET tag == de_u64(data)
    IN  IF ~tag.ok
        THEN tag
        ELSE IF tag.value = 0
             THEN Parsed(None, tag.rest)
             ELSE IF tag.value = 1
                  THEN LET str == de_str(tag.rest)
                       IN  IF str.ok THEN Parsed(Some(str.value), str.rest) ELSE str
                  ELSE Failed("invalid tag encoding Option")

de_duration(data) ==
    LET secs == de_u64(data)
    IN  IF ~secs.ok
        THEN secs
        ELSE LET nanos == de_u64(secs.rest)
             IN  IF ~nanos.ok
                 THEN nanos
                 ELSE Parsed([secs |-> secs.value, nanos |-> nanos.value], nanos.rest)

\* SystemTime: the Duration since UNIX_EPOCH, added to the epoch.
de_system_time(data) ==
    LET d == de_duration(data)
    IN  IF d.ok THEN Parsed(d.value.secs, d.rest) ELSE d

\* impl Deserialize for serde_json::Value calls deserialize_any.
de_json(data) ==
    Failed("Bincode does not support the serde::Deserializer::deserialize_any method")

\* The entries of a HashMap: n times a key and a value.
RECURSIVE de_entries(_, _, _)
de_entries(n, data, map) ==
    IF n = 0
    THEN Parsed(map, data)
    ELSE LET k == de_str(data)
         IN  IF ~k.ok
             THEN k
             ELSE LET v == de_json(k.rest)
                  IN  IF ~v.ok
                      THEN v
                      ELSE de_entries(n - 1, v.rest,
                                      [x \in (DOMAIN map) \cup {k.value} |->
                                          IF x = k.value THEN v.value ELSE map[x]])

de_map(data) ==
    LET n == de_u64(data)
    IN  IF n.ok THEN de_entries(n.value, n.rest, << >>) ELSE n

\* The fields of ProofMetadata, in order.
de_metadata(data) ==
    LET timestamp == de_system_time(data) IN
    IF ~timestamp.ok THEN timestamp ELSE
    LET generation_time == de_duration(timestamp.rest) IN
    IF ~generation_time.ok THEN generation_time ELSE
    LET proof_size == de_u64(generation_time.rest) IN
    IF ~proof_size.ok THEN proof_size ELSE
    LET backend_id == de_str(proof_size.rest) IN
    IF ~backend_id.ok THEN backend_id ELSE
    LET circuit_hash == de_option_str(backend_id.rest) IN
    IF ~circuit_hash.ok THEN circuit_hash ELSE
    LET custom_fields == de_map(circuit_hash.rest) IN
    IF ~custom_fields.ok THEN custom_fields ELSE
    Parsed([timestamp |-> timestamp.value,
            generation_time |-> generation_time.value,
            proof_size |-> proof_size.value,
            backend_id |-> backend_id.value,
            circuit_hash |-> circuit_hash.value,
            custom_fields |-> custom_fields.value],
           custom_fields.rest)

\* ZkPlug::deserialize_proof (default body): bincode::deserialize (trailing
\* data is not an error), its error mapped to ZkError::Serialization.
deserialize_proof(data) ==
    LET proof == de_u64(data)
        metadata == IF proof.ok THEN de_metadata(proof.rest) ELSE proof
    IN  IF metadata.ok
        THEN Ok([proof |-> proof.value, metadata |-> metadata.value])
        ELSE Err(from_zk_error(ZkError("Serialization", metadata.error)))

\* A proof envelope is serialized.
SerializeProof ==
    /\ call.op = "none"
    /\ \E proof \in ZkProof :
          call' = [op |-> "serialize_proof", proof |-> proof,
                   ret |-> serialize_proof(proof)]
    /\ UNCHANGED <<plugins, accepted, invoked, regRet, backend, val, now, tmo>>

\* The data serialize_proof returned is deserialized; proof is history, the
\* envelope the data came from.
DeserializeProof ==
    /\ call.op = "serialize_proof"
    /\ call.ret.tag = "Ok"
    /\ call' = [op |-> "deserialize_proof", proof |-> call.proof,
                data |-> call.ret.value, ret |-> deserialize_proof(call.ret.value)]
    /\ UNCHANGED <<plugins, accepted, invoked, regRet, backend, val, now, tmo>>

SerdeNext == SerializeProof \/ DeserializeProof

(***************************************************************************)
(* utils::validate_input                                                   *)
(***************************************************************************)

\* Bounds: input length, byte values, the maximum given.
MaxInputLen == 4

MaxByte == 1

MaxSize == 4

Bytes == 0..MaxByte

\* Mutant: the size check is off by one.
validate_input_off_by_one(input, max_size) ==
    IF Len(input) = 0
    THEN Err(ZkError("InvalidInput", "Input cannot be empty"))
    ELSE IF max_size.tag = "Some" /\ Len(input) >= max_size.value
         THEN Err(ZkError("InvalidInput", "Input too large"))
         ELSE Ok(<< >>)

\* utils::validate_input
validate_input(input, max_size) ==
    IF Len(input) = 0
    THEN Err(ZkError("InvalidInput", "Input cannot be empty"))
    ELSE IF max_size.tag = "Some" /\ Len(input) > max_size.value
         THEN Err(ZkError("InvalidInput", "Input too large"))
         ELSE Ok(<< >>)

MaxSizes == {None} \cup {Some(m) : m \in 0..MaxSize}

ValInit == val = [op |-> "none"]

ValidateInput ==
    /\ \E input \in SeqsUpTo(Bytes, MaxInputLen), max_size \in MaxSizes :
          val' = [op |-> "validate_input", input |-> input, max_size |-> max_size,
                  ret |-> validate_input(input, max_size)]
    /\ UNCHANGED <<plugins, accepted, invoked, regRet, backend, call, now, tmo>>

ValidateNext == ValidateInput

(***************************************************************************)
(* utils::with_timeout                                                     *)
(*                                                                         *)
(* Time is discrete (Duration in ticks; the clock starts at the call).     *)
(* The wrapped future is the caller's: it either completes at done_at with *)
(* its result or never completes. The task is polled at the call and then  *)
(* once per tick before time moves on (the runtime's timer and the         *)
(* future's waker wake the task at the instant they fire).                 *)
(***************************************************************************)

\* Bounds: the timeout given, the time the wrapped operation takes.
MaxTimeout == 3

MaxDelay == 4

MaxClock == MaxDelay + 1

\* E: the wrapped operation's own error type, and its Into<ZkError>.
OpErrors == {"ProverCrashed", "RemoteUnreachable"}

into(e) ==
    IF e = "ProverCrashed"
    THEN ZkError("ProofGeneration", e)
    ELSE ZkError("Network", e)

\* Result::map_err(Into::into)
map_err_into(result) ==
    IF result.tag = "Err" THEN Err(into(result.error)) ELSE result

Futures ==
    [hangs : {FALSE}, done_at : 0..MaxDelay,
     result : {Ok(v) : v \in Payloads} \cup {Err(e) : e \in OpErrors}]
    \cup [hangs : {TRUE}, done_at : {0}, result : {Ok(1)}]

Timeouts == {None} \cup {Some(d) : d \in 0..MaxTimeout}

Pending == [poll |-> "Pending"]

Ready(v) == [poll |-> "Ready", value |-> v]

\* Future::poll of the wrapped operation at time t.
poll_future(future, t) ==
    IF ~future.hangs /\ future.done_at <= t
    THEN Ready(future.result)
    ELSE Pending

\* tokio::time::timeout(duration, future), polled at time t: the future is
\* polled first, then the deadline.
tokio_timeout_poll(duration, future, t) ==
    LET p == poll_future(future, t)
    IN  IF p.poll = "Ready"
        THEN Ready(Ok(p.value))
        ELSE IF t >= duration THEN Ready(Err("Elapsed")) ELSE Pending

\* Mutant: the timeout is not applied, the future is awaited in both branches.
with_timeout_no_deadline(future, timeout, t) ==
    LET p == poll_future(future, t)
    IN  IF p.poll = "Pending" THEN Pending ELSE Ready(map_err_into(p.value))

\* Mutant: no timeout is taken as the default Duration (zero).
with_timeout_default_deadline(future, timeout, t) ==
    LET duration == IF timeout.tag = "Some" THEN timeout.value ELSE 0
        p == tokio_timeout_poll(duration, future, t)
    IN  IF p.poll = "Pending"
        THEN Pending
        ELSE IF p.value.tag = "Ok"
             THEN Ready(map_err_into(p.value.value))
             ELSE Ready(Err(ZkError("Timeout", duration)))

\* utils::with_timeout, polled at time t.
with_timeout(future, timeout, t) ==
    IF timeout.tag = "Some"
    THEN LET duration == timeout.value
             p == tokio_timeout_poll(duration, future, t)
         IN  IF p.poll = "Pending"
             THEN Pending
             ELSE IF p.value.tag = "Ok"
                  THEN Ready(map_err_into(p.value.value))
                  ELSE Ready(Err(ZkError("Timeout", duration)))
    ELSE LET p == poll_future(future, t)
         IN  IF p.poll = "Pending" THEN Pending ELSE Ready(map_err_into(p.value))

TimeoutInit ==
    /\ now = 0
    /\ tmo = [pc |-> "idle"]

\* The state of the call after a poll at time t.
Polled(future, timeout, t) ==
    LET p == with_timeout(future, timeout, t)
    IN  IF p.poll = "Ready"
        THEN [pc |-> "returned", future |-> future, timeout |-> timeout,
              polled |-> TRUE, ret |-> p.value, ret_at |-> t]
        ELSE [pc |-> "awaiting", future |-> future, timeout |-> timeout,
              polled |-> TRUE]

\* with_timeout(future, timeout).await is called: the first poll.
WithTimeoutCall(future, timeout) ==
    /\ tmo.pc = "idle"
    /\ tmo' = Polled(future, timeout, now)
    /\ UNCHANGED <<plugins, accepted, invoked, regRet, backend, call, val, now>>

\* Time passes while the call is suspended.
Tick ==
    /\ tmo.pc = "awaiting"
    /\ tmo.polled
    /\ now < MaxClock
    /\ now' = now + 1
    /\ tmo' = [tmo EXCEPT !.polled = FALSE]
    /\ UNCHANGED <<plugins, accepted, invoked, regRet, backend, call, val>>

\* The task is polled again.
WithTimeoutPoll ==
    /\ tmo.pc = "awaiting"
    /\ ~tmo.polled
    /\ tmo' = Polled(tmo.future, tmo.timeout, now)
    /\ UNCHANGED <<plugins, accepted, invoked, regRet, backend, call, val, now>>

TimeoutNext ==
    \/ \E future \in Futures, timeout \in Timeouts : WithTimeoutCall(future, timeout)
    \/ Tick
    \/ WithTimeoutPoll

(***************************************************************************)
(* Specifications                                                          *)
(***************************************************************************)

Init ==
    /\ RegistryInit
    /\ BackendIdle
    /\ CallInit
    /\ ValInit
    /\ TimeoutInit

\* The registry.
SpecRegistry == Init /\ [][RegistryNext]_vars

\* The batch defaults.
SpecBatch == Init /\ [][BatchNext]_vars

\* The optional hooks and the lifecycle hooks of a backend that keeps the defaults.
InitBackend ==
    /\ RegistryInit
    /\ BackendInit
    /\ CallInit
    /\ ValInit
    /\ TimeoutInit

SpecBackend == InitBackend /\ [][BackendNext]_vars

\* serialize_proof and deserialize_proof.
SpecSerde == Init /\ [][SerdeNext]_vars

\* validate_input.
SpecValidate == Init /\ [][ValidateNext]_vars

\* with_timeout.
SpecTimeout == Init /\ [][TimeoutNext]_vars

(***************************************************************************)
(* Registry properties (SpecRegistry)                                      *)
(***************************************************************************)

\* C1: once register has succeeded for identity i and i has not been
\* unregistered, every later register of a backend with the same identity
\* returns an error and get(i) still returns the first handle.
C1_SecondRegisterFails ==
    [][\A h \in Handle :
          (Register(h) /\ h.id \in DOMAIN accepted)
             => /\ regRet'.ret.tag = "Err"
                /\ get(plugins', h.id) = Some(accepted[h.id])]_vars

\* C2: from a successful register of a backend with identity i until
\* unregister(i), get(i) returns that backend's handle and list_plugins()
\* contains i.
C2_RegisteredIsHeld ==
    \A i \in DOMAIN accepted :
        /\ get(plugins, i) = Some(accepted[i])
        /\ i \in list_plugins(plugins)

\* C3: unregister(i) returns the handle registered under i, or nothing when
\* none is; right after it get(i) yields nothing, list_plugins() does not
\* contain i, and the entries of the other identities are as before.
C3_UnregisterReturnsHandle ==
    [][\A i \in Ids :
          Unregister(i)
             => /\ regRet'.ret = (IF i \in DOMAIN accepted
                                  THEN Some(accepted[i])
                                  ELSE None)
                /\ get(plugins', i) = None
                /\ i \notin list_plugins(plugins')
                /\ \A j \in Ids \ {i} : get(plugins', j) = get(plugins, j)]_vars

\* C14 (as claimed): no registry operation invokes any method of a backend.
C14_NoBackendCalls == invoked = {}

\* C14 (amended): the only backend method a registry operation invokes is
\* id(), and only register invokes it; get, list_plugins and unregister
\* invoke none.
C14_OnlyRegisterCallsId ==
    \A c \in invoked : c.method = "id" /\ c.op = "register"

\* C14 witness: an unregister that follows a register, with the calls made so
\* far on record.
C14_Witness ==
    /\ regRet.op = "unregister"
    /\ invoked = {[method |-> "id", op |-> "register"]}

(***************************************************************************)
(* Batch properties (SpecBatch)                                            *)
(***************************************************************************)

\* C4: prove_batch returns Ok with exactly one result per input, the i-th
\* being the outcome of prove on the i-th input, whatever the public_inputs
\* list is.
C4_OneResultPerInput ==
    call.op = "prove_batch"
       => /\ call.ret.tag = "Ok"
          /\ Len(call.ret.value.proofs) = Len(call.request.inputs)
          /\ \A i \in 1..Len(call.request.inputs) :
                call.ret.value.proofs[i] =
                    prove(call.request.inputs[i], call.request.public_inputs[i],
                          call.request.config, call.outcomes[i])

\* C5: verify_batch (given a public input for every proof) verifies every
\* proof in order, also after a verify call failed; the results it returns are
\* those of the proofs, in order.
C5_VerifyBatchIsolatesFailures ==
    (call.op = "verify_batch" /\ Len(call.public_inputs) >= Len(call.proofs))
       => /\ call.verified = call.proofs
          /\ call.ret.tag = "Ok"
                => call.ret.value = [i \in 1..Len(call.proofs) |->
                                        call.outcomes[i] = "true"]

(***************************************************************************)
(* Hook properties (SpecBackend)                                           *)
(***************************************************************************)

OptionalHooks ==
    {"aggregate_proofs", "create_recursive_proof", "setup_circuit", "get_circuit_info"}

\* The capability an optional hook belongs to.
HookCapability(op) ==
    CASE op = "aggregate_proofs" -> "Aggregation"
      [] op = "create_recursive_proof" -> "Recursion"
      [] OTHER -> "Circuit"

IsUnsupported(ret) ==
    ret.tag = "Err" /\ ret.error.backend_error.kind = "Unsupported"

\* C8: a hook whose capability is absent from capabilities() returns
\* Unsupported, and a hook whose capability is present does not.
C8_CapabilitiesMatchHooks ==
    call.op \in OptionalHooks
       => (supports_capability(Self, HookCapability(call.op))
              <=> ~IsUnsupported(call.ret))

\* C9: the default optional hooks return an error of kind Unsupported, for
\* every argument and configuration and whatever lifecycle calls were made.
C9_DefaultHooksUnsupported ==
    call.op \in OptionalHooks => IsUnsupported(call.ret)

\* C9 witness: after shutdown, a backend advertising Aggregation is asked to
\* aggregate an empty list and answers Unsupported.
C9_Witness ==
    /\ call.op = "aggregate_proofs"
    /\ call.proofs = << >>
    /\ backend.lifecycle = "Shutdown"
    /\ "Aggregation" \in backend.capabilities
    /\ IsUnsupported(call.ret)

\* C11: whatever lifecycle calls were made (none, initialize, shutdown, any
\* sequence), the default health_check returns Healthy and the default
\* get_resource_usage returns zero CPU, zero memory used, usize::MAX available
\* memory, zero active tasks and zero queue depth.
C11_DefaultHealthAndUsage ==
    /\ call.op \in {"health_check", "ZkBackend::health_check"}
          => call.ret = Healthy
    /\ call.op = "get_resource_usage"
          => /\ call.ret.cpu_usage = 0
             /\ call.ret.memory_usage = usize(0)
             /\ call.ret.available_memory = usize_MAX
             /\ call.ret.active_tasks = usize(0)
             /\ call.ret.queue_depth = usize(0)

\* C11 witness: get_resource_usage on an instance that was shut down reports
\* unbounded available memory.
C11_Witness ==
    /\ call.op = "get_resource_usage"
    /\ backend.lifecycle = "Shutdown"
    /\ call.ret.available_memory = usize_MAX

LifecycleOps ==
    {"initialize", "shutdown", "ZkBackend::initialize", "ZkBackend::shutdown"}

\* C12: every default initialize and shutdown call, after any lifecycle calls,
\* returns success and leaves the instance as it was before the call (so as
\* it was after the first such call).
C12_LifecycleNoOp ==
    call.op \in LifecycleOps
       => /\ call.ret = Ok(<< >>)
          /\ Self = call.self_before

\* C12 witness: initialize called on an instance already initialized, whose
\* fields are not the ones a fresh instance would have.
C12_Witness ==
    /\ call.op = "initialize"
    /\ call.before = "Initialized"
    /\ backend.fields = "f2"
    /\ call.ret = Ok(<< >>)

(***************************************************************************)
(* Serialization properties (SpecSerde)                                    *)
(***************************************************************************)

\* C13: deserializing what serialize_proof returned for an envelope succeeds
\* and yields an envelope equal to it, in the payload and in every metadata
\* field.
C13_RoundTrip ==
    call.op = "deserialize_proof" => call.ret = Ok(call.proof)

(***************************************************************************)
(* validate_input properties (SpecValidate)                                *)
(***************************************************************************)

IsInvalidInput(ret) == ret.tag = "Err" /\ ret.error.kind = "InvalidInput"

TooLarge(input, max_size) ==
    max_size.tag = "Some" /\ Len(input) > max_size.value

\* C10: validate_input fails, with InvalidInput, exactly when the input is
\* empty or longer than the maximum given; otherwise it succeeds.
C10_ValidateInputExact ==
    val.op = "validate_input"
       => IF Len(val.input) = 0 \/ TooLarge(val.input, val.max_size)
          THEN IsInvalidInput(val.ret)
          ELSE val.ret.tag = "Ok"

\* C10 witness: a non-empty input exactly as long as the maximum is accepted.
C10_Witness ==
    /\ val.op = "validate_input"
    /\ val.max_size.tag = "Some"
    /\ Len(val.input) = val.max_size.value
    /\ Len(val.input) > 1
    /\ val.ret.tag = "Ok"

(***************************************************************************)
(* with_timeout properties (SpecTimeout)                                   *)
(***************************************************************************)

\* The wrapped operation has not completed at time t.
NotCompletedAt(future, t) == future.hangs \/ future.done_at > t

IsTimeout(ret, d) ==
    ret.tag = "Err" /\ ret.error.kind = "Timeout" /\ ret.error.payload = d

IsAnyTimeout(ret) == ret.tag = "Err" /\ ret.error.kind = "Timeout"

\* C6: with Some(d), if the operation has not completed when d elapses, the
\* call is no longer awaiting after the poll at d and has returned Timeout(d)
\* at time d; the operation's own result is never returned after d.
C6_TimeoutAtExpiry ==
    (tmo.pc # "idle" /\ tmo.timeout.tag = "Some")
       => LET d == tmo.timeout.value
          IN  /\ (tmo.pc = "awaiting") => (now < d \/ (now = d /\ ~tmo.polled))
              /\ (tmo.pc = "returned" /\ NotCompletedAt(tmo.future, d))
                    => (IsTimeout(tmo.ret, d) /\ tmo.ret_at = d)
              /\ (tmo.pc = "returned" /\ ~IsAnyTimeout(tmo.ret))
                    => tmo.ret_at <= d

\* C6 witness: a timeout of d >= 1 against an operation that completes later:
\* the call has returned Timeout(d) and the clock reads d.
C6_Witness ==
    /\ tmo.pc = "returned"
    /\ tmo.timeout.tag = "Some"
    /\ tmo.timeout.value >= 1
    /\ ~tmo.future.hangs
    /\ tmo.future.done_at > tmo.timeout.value
    /\ IsTimeout(tmo.ret, tmo.timeout.value)
    /\ now = tmo.timeout.value

\* C7: with no timeout the call awaits as long as the operation has not
\* completed and never returns Timeout; when the operation completes (no
\* timeout, or before the timeout expires) the call returns, at that time, the
\* operation's own outcome with its error converted: the outcome of the one
\* run of the operation, not of a later one.
C7_ReturnsOwnOutcome ==
    tmo.pc # "idle"
       => /\ tmo.timeout = None
                => /\ (NotCompletedAt(tmo.future, now)) => tmo.pc = "awaiting"
                   /\ tmo.pc = "returned" => ~IsAnyTimeout(tmo.ret)
          /\ (/\ tmo.pc = "returned"
              /\ tmo.timeout = None \/ tmo.future.done_at < tmo.timeout.value
              /\ ~tmo.future.hangs)
                => /\ tmo.ret = map_err_into(tmo.future.result)
                   /\ tmo.ret_at = tmo.future.done_at

\* C7 witness: no timeout, the operation failed at a time past every timeout
\* of the model, and the call returned its error converted to ZkError.
C7_Witness ==
    /\ tmo.pc = "returned"
    /\ tmo.timeout = None
    /\ tmo.future.done_at > MaxTimeout
    /\ tmo.future.result.tag = "Err"
    /\ tmo.ret = Err(ZkError("Network", "RemoteUnreachable"))
    /\ tmo.ret_at = tmo.future.done_at

====
